---- MODULE Spec2Model ----
(***************************************************************************)
(* get-charm-revisions.py: the charmstore scan (CharmInfo), the stable      *)
(* branch lookup (CharmGit) and the reconciling run (main), as a state      *)
(* machine.  One action per external call outcome and per block of main().  *)
(* Text (repo-info contents, branch names, shas, user and repo names) is a  *)
(* sequence of one-character strings, so that the regular expressions of    *)
(* the source are computed and not assumed.                                 *)
(***************************************************************************)
EXTENDS Integers, Sequences, FiniteSets, TLC

(***************************************************************************)
(* Bounds of the model.                                                     *)
(***************************************************************************)
\* highest revision number the charmstore publishes, and highest stored last_revision
MaxRev == 2
\* number of times main() is run in one behaviour
MaxRuns == 2
\* commits a long stable branch has beyond STABLE_COMMIT_LOOKBACK
ExtraCommits == 2
\* reads of an empty repo-info file that are followed, per revision
MaxReads == 2

(***************************************************************************)
(* Program constants.                                                       *)
(***************************************************************************)
STABLE_COMMIT_LOOKBACK == 20
\* retry = 3 (line 57 and line 67)
RetryBudget == 3

(***************************************************************************)
(* Python values.                                                           *)
(***************************************************************************)
\* None, and a value that is not None, as a sequence of length 0 or 1
None == <<>>
Some(x) == <<x>>

\* An insertion-ordered dict (dict, OrderedDict): a sequence of [k, v]
\* without duplicate keys.
DictKeys(d) == {d[i].k : i \in 1..Len(d)}
DictGet(d, key) == d[CHOOSE i \in 1..Len(d) : d[i].k = key].v
\* d[key] = val: an existing key keeps its position and takes the new value
DictSet(d, key, val) ==
    IF key \in DictKeys(d)
    THEN [i \in 1..Len(d) |-> IF d[i].k = key THEN [k |-> key, v |-> val] ELSE d[i]]
    ELSE Append(d, [k |-> key, v |-> val])

\* a.update(b) on dicts with string keys (TLA+ functions / records)
DictUpdate(a, b) ==
    [x \in (DOMAIN a) \cup (DOMAIN b) |-> IF x \in DOMAIN b THEN b[x] ELSE a[x]]

\* sorted(keys)[-1] on integers: the largest
MaxOf(S) == CHOOSE m \in S : \A x \in S : x <= m

(***************************************************************************)
(* Text and the regular expressions of the source.                          *)
(***************************************************************************)
NL == "\n"
\* The decimal digits of \d on a str pattern: every character of Unicode
\* category Nd, not the ten ASCII digits alone.  A character that a string
\* literal of this module cannot hold is the element "U+" followed by its
\* code point in hexadecimal.
AsciiDigits == {"0", "1", "2", "3", "4", "5", "6", "7", "8", "9"}
OtherDigits ==
    {"U+0660", "U+0661", "U+0662", "U+0663", "U+0664", "U+0665", "U+0666",
     "U+0667", "U+0668", "U+0669", "۰", "۱", "۲", "۳", "۴", "۵", "۶", "۷",
     "۸", "۹", "߀", "߁", "߂", "߃", "߄", "߅", "߆", "߇", "߈", "߉", "U+0966",
     "U+0967", "U+0968", "U+0969", "U+096A", "U+096B", "U+096C", "U+096D",
     "U+096E", "U+096F", "০", "১", "২", "৩", "৪", "৫", "৬", "৭", "৮", "৯",
     "U+0A66", "U+0A67", "U+0A68", "U+0A69", "U+0A6A", "U+0A6B", "U+0A6C",
     "U+0A6D", "U+0A6E", "U+0A6F", "૦", "૧", "૨", "૩", "૪", "૫", "૬", "૭",
     "૮", "૯", "U+0B66", "U+0B67", "U+0B68", "U+0B69", "U+0B6A", "U+0B6B",
     "U+0B6C", "U+0B6D", "U+0B6E", "U+0B6F", "௦", "௧", "௨", "௩", "௪", "௫",
     "௬", "௭", "௮", "௯", "U+0C66", "U+0C67", "U+0C68", "U+0C69", "U+0C6A",
     "U+0C6B", "U+0C6C", "U+0C6D", "U+0C6E", "U+0C6F", "೦", "೧", "೨", "೩",
     "೪", "೫", "೬", "೭", "೮", "೯", "U+0D66", "U+0D67", "U+0D68", "U+0D69",
     "U+0D6A", "U+0D6B", "U+0D6C", "U+0D6D", "U+0D6E", "U+0D6F", "෦", "෧",
     "෨", "෩", "෪", "෫", "෬", "෭", "෮", "෯", "U+0E50", "U+0E51", "U+0E52",
     "U+0E53", "U+0E54", "U+0E55", "U+0E56", "U+0E57", "U+0E58", "U+0E59",
     "໐", "໑", "໒", "໓", "໔", "໕", "໖", "໗", "໘", "໙", "U+0F20", "U+0F21",
     "U+0F22", "U+0F23", "U+0F24", "U+0F25", "U+0F26", "U+0F27", "U+0F28",
     "U+0F29", "U+1040", "U+1041", "U+1042", "U+1043", "U+1044", "U+1045",
     "U+1046", "U+1047", "U+1048", "U+1049", "႐", "႑", "႒", "႓", "႔", "႕",
     "႖", "႗", "႘", "႙", "០", "១", "២", "៣", "៤", "៥", "៦", "៧", "៨", "៩",
     "U+1810", "U+1811", "U+1812", "U+1813", "U+1814", "U+1815", "U+1816",
     "U+1817", "U+1818", "U+1819", "U+1946", "U+1947", "U+1948", "U+1949",
     "U+194A", "U+194B", "U+194C", "U+194D", "U+194E", "U+194F", "᧐", "᧑",
     "᧒", "᧓", "᧔", "᧕", "᧖", "᧗", "᧘", "᧙", "᪀", "᪁", "᪂", "᪃", "᪄", "᪅",
     "᪆", "᪇", "᪈", "᪉", "᪐", "᪑", "᪒", "᪓", "᪔", "᪕", "᪖", "᪗", "᪘", "᪙",
     "U+1B50", "U+1B51", "U+1B52", "U+1B53", "U+1B54", "U+1B55", "U+1B56",
     "U+1B57", "U+1B58", "U+1B59", "᮰", "᮱", "᮲", "᮳", "᮴", "᮵", "᮶", "᮷",
     "᮸", "᮹", "U+1C40", "U+1C41", "U+1C42", "U+1C43", "U+1C44", "U+1C45",
     "U+1C46", "U+1C47", "U+1C48", "U+1C49", "U+1C50", "U+1C51", "U+1C52",
     "U+1C53", "U+1C54", "U+1C55", "U+1C56", "U+1C57", "U+1C58", "U+1C59",
     "U+A620", "U+A621", "U+A622", "U+A623", "U+A624", "U+A625", "U+A626",
     "U+A627", "U+A628", "U+A629", "꣐", "꣑", "꣒", "꣓", "꣔", "꣕", "꣖", "꣗",
     "꣘", "꣙", "U+A900", "U+A901", "U+A902", "U+A903", "U+A904", "U+A905",
     "U+A906", "U+A907", "U+A908", "U+A909", "꧐", "꧑", "꧒", "꧓", "꧔", "꧕",
     "꧖", "꧗", "꧘", "꧙", "꧰", "꧱", "꧲", "꧳", "꧴", "꧵", "꧶", "꧷", "꧸", "꧹",
     "U+AA50", "U+AA51", "U+AA52", "U+AA53", "U+AA54", "U+AA55", "U+AA56",
     "U+AA57", "U+AA58", "U+AA59", "꯰", "꯱", "꯲", "꯳", "꯴", "꯵", "꯶", "꯷",
     "꯸", "꯹", "U+FF10", "U+FF11", "U+FF12", "U+FF13", "U+FF14", "U+FF15",
     "U+FF16", "U+FF17", "U+FF18", "U+FF19", "U+104A0", "U+104A1", "U+104A2",
     "U+104A3", "U+104A4", "U+104A5", "U+104A6", "U+104A7", "U+104A8",
     "U+104A9", "U+10D30", "U+10D31", "U+10D32", "U+10D33", "U+10D34",
     "U+10D35", "U+10D36", "U+10D37", "U+10D38", "U+10D39", "U+11066",
     "U+11067", "U+11068", "U+11069", "U+1106A", "U+1106B", "U+1106C",
     "U+1106D", "U+1106E", "U+1106F", "U+110F0", "U+110F1", "U+110F2",
     "U+110F3", "U+110F4", "U+110F5", "U+110F6", "U+110F7", "U+110F8",
     "U+110F9", "U+11136", "U+11137", "U+11138", "U+11139", "U+1113A",
     "U+1113B", "U+1113C", "U+1113D", "U+1113E", "U+1113F", "U+111D0",
     "U+111D1", "U+111D2", "U+111D3", "U+111D4", "U+111D5", "U+111D6",
     "U+111D7", "U+111D8", "U+111D9", "U+112F0", "U+112F1", "U+112F2",
     "U+112F3", "U+112F4", "U+112F5", "U+112F6", "U+112F7", "U+112F8",
     "U+112F9", "U+11450", "U+11451", "U+11452", "U+11453", "U+11454",
     "U+11455", "U+11456", "U+11457", "U+11458", "U+11459", "U+114D0",
     "U+114D1", "U+114D2", "U+114D3", "U+114D4", "U+114D5", "U+114D6",
     "U+114D7", "U+114D8", "U+114D9", "U+11650", "U+11651", "U+11652",
     "U+11653", "U+11654", "U+11655", "U+11656", "U+11657", "U+11658",
     "U+11659", "U+116C0", "U+116C1", "U+116C2", "U+116C3", "U+116C4",
     "U+116C5", "U+116C6", "U+116C7", "U+116C8", "U+116C9", "U+11730",
     "U+11731", "U+11732", "U+11733", "U+11734", "U+11735", "U+11736",
     "U+11737", "U+11738", "U+11739", "U+118E0", "U+118E1", "U+118E2",
     "U+118E3", "U+118E4", "U+118E5", "U+118E6", "U+118E7", "U+118E8",
     "U+118E9", "U+11950", "U+11951", "U+11952", "U+11953", "U+11954",
     "U+11955", "U+11956", "U+11957", "U+11958", "U+11959", "U+11C50",
     "U+11C51", "U+11C52", "U+11C53", "U+11C54", "U+11C55", "U+11C56",
     "U+11C57", "U+11C58", "U+11C59", "U+11D50", "U+11D51", "U+11D52",
     "U+11D53", "U+11D54", "U+11D55", "U+11D56", "U+11D57", "U+11D58",
     "U+11D59", "U+11DA0", "U+11DA1", "U+11DA2", "U+11DA3", "U+11DA4",
     "U+11DA5", "U+11DA6", "U+11DA7", "U+11DA8", "U+11DA9", "U+16A60",
     "U+16A61", "U+16A62", "U+16A63", "U+16A64", "U+16A65", "U+16A66",
     "U+16A67", "U+16A68", "U+16A69", "U+16AC0", "U+16AC1", "U+16AC2",
     "U+16AC3", "U+16AC4", "U+16AC5", "U+16AC6", "U+16AC7", "U+16AC8",
     "U+16AC9", "U+16B50", "U+16B51", "U+16B52", "U+16B53", "U+16B54",
     "U+16B55", "U+16B56", "U+16B57", "U+16B58", "U+16B59", "U+1D7CE",
     "U+1D7CF", "U+1D7D0", "U+1D7D1", "U+1D7D2", "U+1D7D3", "U+1D7D4",
     "U+1D7D5", "U+1D7D6", "U+1D7D7", "U+1D7D8", "U+1D7D9", "U+1D7DA",
     "U+1D7DB", "U+1D7DC", "U+1D7DD", "U+1D7DE", "U+1D7DF", "U+1D7E0",
     "U+1D7E1", "U+1D7E2", "U+1D7E3", "U+1D7E4", "U+1D7E5", "U+1D7E6",
     "U+1D7E7", "U+1D7E8", "U+1D7E9", "U+1D7EA", "U+1D7EB", "U+1D7EC",
     "U+1D7ED", "U+1D7EE", "U+1D7EF", "U+1D7F0", "U+1D7F1", "U+1D7F2",
     "U+1D7F3", "U+1D7F4", "U+1D7F5", "U+1D7F6", "U+1D7F7", "U+1D7F8",
     "U+1D7F9", "U+1D7FA", "U+1D7FB", "U+1D7FC", "U+1D7FD", "U+1D7FE",
     "U+1D7FF", "U+1E140", "U+1E141", "U+1E142", "U+1E143", "U+1E144",
     "U+1E145", "U+1E146", "U+1E147", "U+1E148", "U+1E149", "U+1E2F0",
     "U+1E2F1", "U+1E2F2", "U+1E2F3", "U+1E2F4", "U+1E2F5", "U+1E2F6",
     "U+1E2F7", "U+1E2F8", "U+1E2F9", "U+1E950", "U+1E951", "U+1E952",
     "U+1E953", "U+1E954", "U+1E955", "U+1E956", "U+1E957", "U+1E958",
     "U+1E959", "U+1FBF0", "U+1FBF1", "U+1FBF2", "U+1FBF3", "U+1FBF4",
     "U+1FBF5", "U+1FBF6", "U+1FBF7", "U+1FBF8", "U+1FBF9"}
DecimalDigits == AsciiDigits \cup OtherDigits
\* the class [\da-f] of line 98
HexChars == DecimalDigits \cup {"a", "b", "c", "d", "e", "f"}
CommitLabel == <<"c", "o", "m", "m", "i", "t", "-", "s", "h", "a", "-", "1", ":", " ">>
\* the unescaped "." of the pattern matches any character but a newline
AnyChar == "ANY"
RemoteLabel == <<"r", "e", "m", "o", "t", "e", ":", " ", "h", "t", "t", "p", "s", ":",
                 "/", "/", "g", "i", "t", "h", "u", "b", AnyChar, "c", "o", "m", "/">>
StablePrefix == <<"s", "t", "a", "b", "l", "e", "/">>

\* the pattern lit (literal characters and AnyChar) matches text t at position i
LitAt(t, i, lit) ==
    /\ i + Len(lit) - 1 <= Len(t)
    /\ \A j \in 1..Len(lit) :
          IF lit[j] = AnyChar THEN t[i + j - 1] # NL ELSE t[i + j - 1] = lit[j]

\* end of the longest run of characters of set cs that starts at position i
\* (i - 1 when t[i] is not in cs)
RECURSIVE RunEnd(_, _, _)
RunEnd(t, i, cs) ==
    IF i <= Len(t) /\ t[i] \in cs THEN RunEnd(t, i + 1, cs) ELSE i - 1

\* last position of the line that position i is in, the newline excluded
\* ("." does not match a newline)
RECURSIVE LineEnd(_, _)
LineEnd(t, i) ==
    IF i <= Len(t) /\ t[i] # NL THEN LineEnd(t, i + 1) ELSE i - 1

\* mutant: the class is \d alone
sha_matchDigits(t) ==
    LET Digits == {"0", "1", "2", "3", "4", "5", "6", "7", "8", "9"}
        S == {i \in 1..Len(t) : LitAt(t, i, CommitLabel)
                                /\ RunEnd(t, i + Len(CommitLabel), Digits) >= i + Len(CommitLabel)}
    IN  IF S = {} THEN None
        ELSE LET i == CHOOSE x \in S : \A y \in S : x <= y
                 b == i + Len(CommitLabel)
             IN  Some(SubSeq(t, b, RunEnd(t, b, Digits)))

\* re.search(r"commit-sha-1: ([\da-f]+)", repo_info): group 1, or None
ShaStarts(t) ==
    {i \in 1..Len(t) : LitAt(t, i, CommitLabel)
                       /\ RunEnd(t, i + Len(CommitLabel), HexChars) >= i + Len(CommitLabel)}
sha_match(t) ==
    IF ShaStarts(t) = {} THEN None
    ELSE LET i == CHOOSE x \in ShaStarts(t) : \A y \in ShaStarts(t) : x <= y
             b == i + Len(CommitLabel)
         IN  Some(SubSeq(t, b, RunEnd(t, b, HexChars)))

\* re.search(r"remote: https://github.com/(.+)/(.+)", repo_info): groups 1
\* and 2, or None.  Both groups are greedy and stay within the line: the
\* split is at the last "/" of the line that has a character on either side.
Splits(t, b) ==
    {k \in (b + 1)..(LineEnd(t, b) - 1) : t[k] = "/"}
RemoteStarts(t) ==
    {i \in 1..Len(t) : LitAt(t, i, RemoteLabel) /\ Splits(t, i + Len(RemoteLabel)) # {}}
repo_match(t) ==
    IF RemoteStarts(t) = {} THEN None
    ELSE LET i == CHOOSE x \in RemoteStarts(t) : \A y \in RemoteStarts(t) : x <= y
             b == i + Len(RemoteLabel)
             k == MaxOf(Splits(t, b))
         IN  Some(<<SubSeq(t, b, k - 1), SubSeq(t, k + 1, LineEnd(t, b))>>)

\* re.search(r"^stable/.+$", branch.name)
is_stable(name) ==
    /\ LitAt(name, 1, StablePrefix)
    /\ Len(name) > Len(StablePrefix)
    /\ LineEnd(name, Len(StablePrefix) + 1) >= Len(name) - 1
    /\ LineEnd(name, Len(StablePrefix) + 1) >= Len(StablePrefix) + 1

\* mutant: the remote is recorded whether there is a commit line or not
ParseRepoInfoRemoteAlone(t) ==
    LET sha == IF sha_match(t) = None THEN <<>> ELSE [sha |-> sha_match(t)[1]]
    IN  IF repo_match(t) = None
        THEN (IF sha_match(t) = None THEN None ELSE Some(sha))
        ELSE Some(DictUpdate(sha, [user |-> repo_match(t)[1][1],
                                   repo |-> repo_match(t)[1][2]]))

\* lines 100-111: the record of a revision from its repo-info text, or None
\* when the text has no commit line
ParseRepoInfo(t) ==
    IF sha_match(t) = None THEN None
    ELSE LET sha == [sha |-> sha_match(t)[1]]
         IN  IF repo_match(t) = None THEN Some(sha)
             ELSE Some(DictUpdate(sha, [user |-> repo_match(t)[1][1],
                                        repo |-> repo_match(t)[1][2]]))

(***************************************************************************)
(* The charmstore (theblues.CharmStore) as the scan sees it.                *)
(***************************************************************************)
GithubUrl == <<"r", "e", "m", "o", "t", "e", ":", " ", "h", "t", "t", "p", "s", ":",
               "/", "/", "g", "i", "t", "h", "u", "b", ".", "c", "o", "m", "/">>
Canonical == <<"c", "a", "n", "o", "n", "i", "c", "a", "l">>
ExampleCharm == <<"e", "x", "a", "m", "p", "l", "e", "-", "c", "h", "a", "r", "m">>
ShaAbc == <<"a", "b", "c">>
ShaDef == <<"d", "e", "f">>
Sha1a2b == <<"1", "a", "2", "b", "3", "c", "4", "d">>
Fork == <<"f", "o", "r", "k">>
CommitLine(sha) == CommitLabel \o sha \o <<NL>>
RemoteLine(user, repo) == GithubUrl \o user \o <<"/">> \o repo \o <<NL>>

\* What a revision of a charm is in the charmstore: not there ("notfound":
\* cs.files raises EntityNotFound), there without a repo-info file
\* ("nofile"), or there with the repo-info text of that name.
Texts ==
    [full    |-> CommitLine(ShaAbc) \o RemoteLine(Canonical, ExampleCharm),
     other   |-> CommitLine(ShaDef) \o RemoteLine(Canonical, ExampleCharm),
     forked  |-> RemoteLine(Fork, ExampleCharm) \o CommitLine(Sha1a2b),
     shaonly |-> CommitLine(ShaDef) \o <<"b", "r", "a", "n", "c", "h", ":", " ", "H", "E", "A", "D", NL>>,
     nosha   |-> RemoteLine(Canonical, ExampleCharm),
     empty   |-> <<>>]
TextKinds == {"full", "other", "forked", "shaonly", "nosha", "empty"}
Kinds == {"notfound", "nofile", "full", "other", "forked", "shaonly", "nosha", "empty"}

\* cs.files(cs_location): the file names of a revision that is there
Listing(kind) ==
    IF kind = "nofile" THEN {"metadata.yaml"} ELSE {"metadata.yaml", "repo-info"}

(***************************************************************************)
(* GitHub as CharmGit sees it: per repository the branches in the order     *)
(* get_branches() yields them, each with its commits newest first.          *)
(***************************************************************************)
Master == <<"m", "a", "s", "t", "e", "r">>
Stable2004 == <<"s", "t", "a", "b", "l", "e", "/", "2", "0", ".", "0", "4">>
Stable2104 == <<"s", "t", "a", "b", "l", "e", "/", "2", "1", ".", "0", "4">>
HexDigit == <<"0", "1", "2", "3", "4", "5", "6", "7", "8", "9",
              "a", "b", "c", "d", "e", "f">>
\* the sha of the n-th filler commit, two hex digits
FillSha(n) == <<HexDigit[(n \div 16) + 1], HexDigit[(n % 16) + 1]>>
\* n filler commits, numbered from first
Filler(first, n) == [i \in 1..n |-> FillSha(first + i - 1)]
Branch(name, commits) == [name |-> name, commits |-> commits]

\* mutant: a sha that already has a branch keeps it
RECURSIVE AddCommitsFirst(_, _, _, _)
AddCommitsFirst(commits, name, history, num) ==
    IF num > Len(history) THEN commits
    ELSE LET c == IF history[num] \in DictKeys(commits) THEN commits
                  ELSE DictSet(commits, history[num], name)
         IN  IF num = STABLE_COMMIT_LOOKBACK THEN c
             ELSE AddCommitsFirst(c, name, history, num + 1)

\* mutant: no break at the limit
RECURSIVE AddCommitsNoLimit(_, _, _, _)
AddCommitsNoLimit(commits, name, history, num) ==
    IF num > Len(history) THEN commits
    ELSE AddCommitsNoLimit(DictSet(commits, history[num], name), name, history, num + 1)

\* lines 133-148: the OrderedDict commit sha -> branch name
RECURSIVE AddCommits(_, _, _, _)
AddCommits(commits, name, history, num) ==
    IF num > Len(history) THEN commits
    ELSE LET c == DictSet(commits, history[num], name)
         IN  IF num = STABLE_COMMIT_LOOKBACK THEN c
             ELSE AddCommits(c, name, history, num + 1)
RECURSIVE AddBranches(_, _, _)
AddBranches(commits, branches, n) ==
    IF n > Len(branches) THEN commits
    ELSE IF ~is_stable(branches[n].name) THEN AddBranches(commits, branches, n + 1)
    ELSE AddBranches(AddCommits(commits, branches[n].name, branches[n].commits, 1),
                     branches, n + 1)
stable_sha_dict(branches) == AddBranches(<<>>, branches, 1)

(***************************************************************************)
(* The stored document (charm_revisions.yaml) and main()'s view of it.      *)
(* A charm's value is either not a dict (a new entry of the yaml file) or a *)
(* dict with an optional last_revision and records keyed by revision.       *)
(***************************************************************************)
NotDict == [isdict |-> FALSE, last |-> None, revs |-> <<>>]
EmptyDict == [isdict |-> TRUE, last |-> None, revs |-> <<>>]
Checked(r) == [isdict |-> TRUE, last |-> Some(r), revs |-> <<>>]

\* charm names and their order under sorted()
CharmNames == {"a", "b"}
NameRank == [a |-> 1, b |-> 2]
RECURSIVE sorted(_)
sorted(S) ==
    IF S = {} THEN <<>>
    ELSE LET m == CHOOSE x \in S : \A y \in S : NameRank[x] <= NameRank[y]
         IN  <<m>> \o sorted(S \ {m})

\* lines 166-168: a value that is not a dict becomes {}
Normalise(details) == IF details.isdict THEN details ELSE EmptyDict
\* line 170: details.get("last_revision", 0)
StoredLast(details) == IF details.last = None THEN 0 ELSE details.last[1]

\* mutant: the range includes last_checked_revision
CandidatesInclusive(last_revision, last_checked_revision) ==
    [i \in 1..(last_revision - last_checked_revision + 1) |-> last_revision - i + 1]
\* mutant: no special case for a highest revision of 0
CandidatesNoTrick(last_revision, last_checked_revision) ==
    [i \in 1..(last_revision - last_checked_revision) |-> last_revision - i + 1]

\* mutant: the range in ascending order
RangeAscending(start, stop) == [i \in 1..(start - stop) |-> stop + i]

\* lines 51-54: range(last_revision, self.last_checked_revision, -1), with
\* last_checked_revision set to -1 when last_revision is 0
Range(start, stop) == [i \in 1..(start - stop) |-> start - i + 1]
Candidates(last_revision, last_checked_revision) ==
    Range(last_revision, IF last_revision = 0 THEN -1 ELSE last_checked_revision)

\* line 61: while retry > 0 and cs_files is None
ListingLoop(r, files) == r > 0 /\ files = None

\* mutant: a timeout costs two attempts
AfterTimeoutTwice(r) == r - 2

\* line 78: a timeout costs one attempt
AfterTimeout(r) == r - 1

\* mutant: retry is set once, before the loop over the revisions
FreshRetryCarried(r) == r

\* line 57: retry = 3 at each revision, whatever value r the revision before
\* left in it
FreshRetry(r) == RetryBudget

\* mutant: the last record that has a user
FirstWithUserLast(revision_detail) ==
    LET S == {i \in 1..Len(revision_detail) : "user" \in DOMAIN revision_detail[i].v}
    IN  IF S = {} THEN None
        ELSE Some(revision_detail[CHOOSE i \in S : \A j \in S : j <= i].v)

\* lines 185-195: the first revision of revision_detail, in its iteration
\* order, whose record has a user; None when no record has one
FirstWithUser(revision_detail) ==
    LET S == {i \in 1..Len(revision_detail) : "user" \in DOMAIN revision_detail[i].v}
    IN  IF S = {} THEN None
        ELSE Some(revision_detail[CHOOSE i \in S : \A j \in S : i <= j].v)

\* mutant: the comparison of line 201 inverted
ReleaseInverted(revision_data, items) ==
    LET S == {i \in 1..Len(items) : items[i].k # revision_data.sha}
    IN  IF S = {} THEN revision_data
        ELSE DictUpdate(revision_data,
                        [release |-> items[CHOOSE i \in S : \A j \in S : i <= j].v])

\* lines 200-203: revision_data after the search of hashes for its sha; the
\* first item whose key is the sha gives the release
Release(revision_data, items) ==
    LET S == {i \in 1..Len(items) : items[i].k = revision_data.sha}
    IN  IF S = {} THEN revision_data
        ELSE DictUpdate(revision_data,
                        [release |-> items[CHOOSE i \in S : \A j \in S : i <= j].v])

\* lines 204-208 for the whole of revision_detail: each record, joined, is
\* merged into the charm's record of that revision, or becomes it
RECURSIVE Persist(_, _, _)
Persist(revs, revision_detail, n) ==
    IF n > Len(revision_detail) THEN revs
    ELSE LET revision == revision_detail[n].k
             revision_data == revision_detail[n].v
             merged == IF revision \in DOMAIN revs
                       THEN DictUpdate(revs[revision], revision_data)
                       ELSE revision_data
         IN  Persist([r \in (DOMAIN revs) \cup {revision} |->
                         IF r = revision THEN merged ELSE revs[r]],
                     revision_detail, n + 1)

\* mutant: the smallest key
LastHandledLowest(revision_detail) ==
    CHOOSE m \in DictKeys(revision_detail) : \A x \in DictKeys(revision_detail) : m <= x
\* mutant: list(revision_detail.keys())[-1], without sorted
LastHandledUnsorted(revision_detail) == revision_detail[Len(revision_detail)].k

\* line 214: sorted(revision_detail.keys())[-1]
LastHandled(revision_detail) == MaxOf(DictKeys(revision_detail))

(***************************************************************************)
(* State.                                                                   *)
(***************************************************************************)
VARIABLES
    cs,            \* the charmstore, as far as it has answered: charm ->
                   \* [highest: None or Some(n), prov: revision asked for -> kind]
    git,           \* GitHub, once it has answered: None or Some(name of a GitHub)
    file,          \* the contents of charm_revisions.yaml
    charm_data,    \* main: the loaded document
    charmlist,     \* main: sorted(list(charm_data.keys()))
    idx,           \* main: position of the for loop in charmlist
    pc,            \* where the run is
    todo,          \* scan: the revisions of the range not yet left, current first
    retry,         \* scan: retry
    cs_files,      \* scan: cs_files
    revision_hash, \* scan: revision_hash, which main calls revision_detail
    hashes,        \* main: hashes
    run,           \* number of the run of main()
    file0,         \* history: the file as the current run loaded it
    calls,         \* history: cs.files listing calls made for the current revision
    skips,         \* history: the runs in which the scan left a revision on a
                   \* timeout or a login failure
    outcome,       \* history: how the scan left each revision of the current charm
    reads,         \* history: repo-info reads that returned for the current revision
    writes,        \* history: writes of the file since the current charm was begun
    resolved,      \* history: the (user, repo) pairs CharmGit was asked for, for
                   \* the current charm
    batch          \* history: charm -> revision_detail as main left it, for the
                   \* charms the current run has finished with

envVars == <<cs, git>>
scanVars == <<todo, retry, cs_files, revision_hash, calls, outcome, skips, reads>>
mainVars == <<file, charm_data, charmlist, idx, hashes, run, file0>>
logVars == <<writes, resolved, batch>>
vars == <<cs, git, file, charm_data, charmlist, idx, pc, todo, retry, cs_files,
          revision_hash, hashes, run, file0, calls, skips, outcome, reads,
          writes, resolved, batch>>

charm == charmlist[idx]
revision == Head(todo)
\* The charmstore and GitHub do not change during a behaviour: what one of
\* them answered once, it answers again.
CanBe(c, r, kind) == r \in DOMAIN cs[c].prov => cs[c].prov[r] = kind
Learn(c, r, kind) ==
    [cs EXCEPT ![c].prov = [x \in (DOMAIN @) \cup {r} |-> IF x = r THEN kind ELSE @[x]]]


(***************************************************************************)
(* Initial states: a stored document; the charmstore and GitHub have not    *)
(* been asked anything yet.                                                 *)
(***************************************************************************)
\* A GitHub is the sequence of its repositories; the ones of the model:
\* twostable: abc on both stable branches and on master, def on master alone;
\*            the fork has 1a2b3c4d on its stable branch
\* long:      one long stable branch, def within the lookback, abc beyond it
\* nostable:  no stable branch
\* shared:    abc beyond the lookback of one stable branch and within the
\*            lookback of another
Repository(user, repo, branches) == [user |-> user, repo |-> repo, branches |-> branches]
GitHubs ==
    [twostable |->
        <<Repository(Canonical, ExampleCharm,
            <<Branch(Master, <<ShaDef, ShaAbc>>),
              Branch(Stable2004, <<ShaAbc, FillSha(1)>>),
              Branch(Stable2104, <<FillSha(2), ShaAbc>>)>>),
          Repository(Fork, ExampleCharm,
            <<Branch(Master, <<ShaAbc>>),
              Branch(Stable2004, <<Sha1a2b, FillSha(3)>>)>>)>>,
     long |->
        <<Repository(Canonical, ExampleCharm,
            <<Branch(Stable2104,
                     <<ShaDef>> \o Filler(1, STABLE_COMMIT_LOOKBACK - 1)
                                \o <<ShaAbc>>
                                \o Filler(STABLE_COMMIT_LOOKBACK, ExtraCommits))>>)>>,
     nostable |->
        <<Repository(Canonical, ExampleCharm,
            <<Branch(Master, <<ShaAbc, ShaDef>>)>>)>>,
     shared |->
        <<Repository(Canonical, ExampleCharm,
            <<Branch(Stable2104,
                     <<ShaDef>> \o Filler(1, STABLE_COMMIT_LOOKBACK - 1)
                                \o <<ShaAbc>>
                                \o Filler(STABLE_COMMIT_LOOKBACK, ExtraCommits)),
              Branch(Stable2004, <<ShaAbc, FillSha(0)>>)>>)>>]
\* line 135: self.git.get_user(self.user).get_repo(self.repo), as the set
\* of the repositories of GitHub g with that user and name
get_repo(g, user, repo) ==
    {GitHubs[g][n].branches : n \in {m \in 1..Len(GitHubs[g]) :
                                        /\ GitHubs[g][m].user = user
                                        /\ GitHubs[g][m].repo = repo}}

Stored == {NotDict, EmptyDict} \cup {Checked(r) : r \in 0..MaxRev}
\* a new entry, an entry scanned up to revision 1
StoredTwo == {NotDict, Checked(1)}

InitWith(names, stored) ==
    /\ cs = [c \in names |-> [highest |-> None, prov |-> <<>>]]
    /\ git = None
    /\ file \in [names -> stored]
    /\ charm_data = <<>>
    /\ charmlist = <<>>
    /\ idx = 1
    /\ pc = "load"
    /\ todo = <<>>
    /\ retry = RetryBudget
    /\ cs_files = None
    /\ revision_hash = <<>>
    /\ hashes = None
    /\ run = 1
    /\ file0 = file
    /\ calls = 0
    /\ skips = {}
    /\ outcome = <<>>
    /\ reads = 0
    /\ writes = 0
    /\ resolved = <<>>
    /\ batch = <<>>

(***************************************************************************)
(* main(), lines 156-160: load the document and sort the charm names.       *)
(***************************************************************************)
Load ==
    /\ pc = "load"
    /\ charm_data' = file
    /\ charmlist' = sorted(DOMAIN file)
    /\ idx' = 1
    /\ pc' = IF DOMAIN file = {} THEN "done" ELSE "charm"
    /\ file0' = file
    /\ writes' = 0
    /\ resolved' = <<>>
    /\ batch' = <<>>
    /\ UNCHANGED <<envVars, scanVars, file, hashes, run>>

\* where the for loop of main goes after the charm at position i
AfterCharm(i) == IF i >= Len(charmlist) THEN "done" ELSE "charm"

(***************************************************************************)
(* Lines 162-174 and 43-58: the next charm, its entity lookup, the range.   *)
(***************************************************************************)
\* the scan at the head of the range t, retry being r: lines 55-58
AtRevision(t, r) ==
    /\ todo' = t
    /\ retry' = FreshRetry(r)
    /\ cs_files' = None
    /\ calls' = 0
    /\ reads' = 0
    /\ pc' = IF t = <<>> THEN "scanned" ELSE "files"

\* lines 44-46: the entity's Id ends in -<last_revision>
Entity ==
    /\ pc = "charm"
    /\ \E last_revision \in 0..MaxRev :
          /\ cs[charm].highest \in {None, Some(last_revision)}
          /\ cs' = [cs EXCEPT ![charm].highest = Some(last_revision)]
          /\ LET details == Normalise(charm_data[charm])
             IN  /\ charm_data' = [charm_data EXCEPT ![charm] = details]
                 /\ AtRevision(Candidates(last_revision, StoredLast(details)), retry)
    /\ revision_hash' = <<>>
    /\ outcome' = <<>>
    /\ writes' = 0
    /\ resolved' = <<>>
    /\ UNCHANGED <<git, file, charmlist, idx, hashes, run, file0, skips, batch>>

\* line 44 raises (the charm is unknown to the charmstore, or the store
\* fails): the exception leaves main
EntityRaises ==
    /\ pc = "charm"
    /\ charm_data' = [charm_data EXCEPT ![charm] = Normalise(charm_data[charm])]
    /\ pc' = "crashed"
    /\ UNCHANGED <<envVars, scanVars, logVars, file, charmlist, idx, hashes, run, file0>>

(***************************************************************************)
(* Lines 61-85: one cs.files listing call and what follows it.              *)
(***************************************************************************)
\* the scan leaves the current revision in the way `how`, retry being r,
\* and is at the next revision of the range (lines 55-58) or at the end of
\* the range
Leave(how, r) ==
    /\ outcome' = [x \in (DOMAIN outcome) \cup {revision} |->
                      IF x = revision THEN how ELSE outcome[x]]
    /\ skips' = IF how \in {"timeout", "login"} THEN skips \cup {run} ELSE skips
    /\ AtRevision(Tail(todo), r)

\* lines 63-67 and 82-85: the listing arrives
FilesOk(kinds) ==
    /\ pc = "files"
    /\ ListingLoop(retry, cs_files)
    /\ \E kind \in kinds \ {"notfound"} :
          /\ CanBe(charm, revision, kind)
          /\ cs' = Learn(charm, revision, kind)
          /\ IF "repo-info" \in Listing(kind)
             THEN /\ cs_files' = Some(Listing(kind))
                  /\ retry' = RetryBudget
                  /\ calls' = calls + 1
                  /\ pc' = "read"
                  /\ UNCHANGED <<todo, outcome, skips, reads>>
             ELSE Leave("nofile", RetryBudget)
    /\ UNCHANGED <<git, mainVars, logVars, revision_hash>>

\* lines 68-71: the revision is not in the charmstore
FilesEntityNotFound ==
    /\ pc = "files"
    /\ ListingLoop(retry, cs_files)
    /\ CanBe(charm, revision, "notfound")
    /\ cs' = Learn(charm, revision, "notfound")
    /\ Leave("notfound", -1)
    /\ UNCHANGED <<git, mainVars, logVars, revision_hash>>

\* lines 72-74: the charmstore asks for a login
FilesInteractionError ==
    /\ pc = "files"
    /\ ListingLoop(retry, cs_files)
    /\ Leave("login", -1)
    /\ UNCHANGED <<envVars, mainVars, logVars, revision_hash>>

\* lines 75-78: a timeout; the call is repeated while retry is positive
FilesServerError ==
    /\ pc = "files"
    /\ ListingLoop(retry, cs_files)
    /\ IF ListingLoop(AfterTimeout(retry), cs_files)
       THEN /\ retry' = AfterTimeout(retry)
            /\ calls' = calls + 1
            /\ UNCHANGED <<todo, cs_files, pc, outcome, skips, reads>>
       ELSE Leave("timeout", AfterTimeout(retry))
    /\ UNCHANGED <<envVars, mainVars, logVars, revision_hash>>

(***************************************************************************)
(* Lines 88-114: one cs.files read of repo-info and what follows it.        *)
(***************************************************************************)
\* lines 94-95: a timeout; the read is repeated
ReadServerError ==
    /\ pc = "read"
    /\ UNCHANGED vars

\* line 89: while not repo_info; an empty text is not a repo_info
ReadLoop(repo_info) == repo_info = <<>>

\* lines 91-93 and 97-114: the text arrives.  The loop ends when the text
\* is not empty (while not repo_info); an empty text is read again.
ReadOk ==
    /\ pc = "read"
    /\ reads < MaxReads
    /\ LET repo_info == Texts[cs[charm].prov[revision]]
           found == ParseRepoInfo(repo_info)
       IN  /\ revision_hash' = IF found = None THEN revision_hash
                                ELSE DictSet(revision_hash, revision, found[1])
           /\ IF ReadLoop(repo_info)
              THEN /\ reads' = reads + 1
                   /\ UNCHANGED <<todo, retry, cs_files, calls, outcome, skips, pc>>
              ELSE Leave(IF found = None THEN "nosha" ELSE "found", retry)
    /\ UNCHANGED <<envVars, mainVars, logVars>>

\* lines 63 and 91: the charmstore raises an exception that no handler of
\* the scan catches; it leaves main
ScanRaises ==
    /\ pc \in {"files", "read"}
    /\ pc' = "crashed"
    /\ UNCHANGED <<envVars, mainVars, logVars, todo, retry, cs_files, revision_hash,
                   calls, outcome, skips, reads>>

(***************************************************************************)
(* main(), lines 176-216, for the charm that was scanned.                   *)
(***************************************************************************)
\* mutant: an empty result advances last_revision to the highest revision
SkipAdvancing ==
    /\ pc = "scanned"
    /\ Len(revision_hash) = 0
    /\ charm_data' = [charm_data EXCEPT ![charm].last = cs[charm].highest]
    /\ file' = charm_data'
    /\ pc' = AfterCharm(idx)
    /\ idx' = idx + 1
    /\ batch' = [c \in (DOMAIN batch) \cup {charm} |->
                    IF c = charm THEN revision_hash ELSE batch[c]]
    /\ UNCHANGED <<envVars, scanVars, charmlist, hashes, run, file0, writes, resolved>>

\* lines 178-179: nothing new
Skip ==
    /\ pc = "scanned"
    /\ Len(revision_hash) = 0
    /\ pc' = AfterCharm(idx)
    /\ idx' = idx + 1
    /\ batch' = [c \in (DOMAIN batch) \cup {charm} |->
                    IF c = charm THEN revision_hash ELSE batch[c]]
    /\ UNCHANGED <<envVars, scanVars, file, charm_data, charmlist, hashes, run, file0,
                   writes, resolved>>

\* lines 184-195, no record has a user: hashes stays None
NoUser ==
    /\ pc = "scanned"
    /\ Len(revision_hash) # 0
    /\ FirstWithUser(revision_hash) = None
    /\ hashes' = None
    /\ pc' = "record"
    /\ UNCHANGED <<envVars, scanVars, logVars, file, charm_data, charmlist, idx, run, file0>>

\* lines 188-193: stable_sha_dict of the repository of the first record
\* that has a user
Resolve(gits) ==
    /\ pc = "scanned"
    /\ Len(revision_hash) # 0
    /\ FirstWithUser(revision_hash) # None
    /\ \E g \in gits :
          /\ git \in {None, Some(g)}
          /\ git' = Some(g)
          /\ LET revision_data == FirstWithUser(revision_hash)[1]
             IN  /\ \E branches \in get_repo(g, revision_data.user, revision_data.repo) :
                       hashes' = Some(stable_sha_dict(branches))
                 /\ resolved' = Append(resolved, <<revision_data.user, revision_data.repo>>)
    /\ pc' = "join"
    /\ UNCHANGED <<cs, scanVars, file, charm_data, charmlist, idx, run, file0,
                   writes, batch>>

\* lines 135-144 raise (GitHub fails, or the repository is not there): the
\* exception leaves main
GitRaises ==
    /\ pc = "scanned"
    /\ Len(revision_hash) # 0
    /\ FirstWithUser(revision_hash) # None
    /\ resolved' = Append(resolved, <<FirstWithUser(revision_hash)[1].user,
                                       FirstWithUser(revision_hash)[1].repo>>)
    /\ pc' = "crashed"
    /\ UNCHANGED <<envVars, scanVars, mainVars, writes, batch>>

\* lines 198-203: revision_detail with every record joined
Joined(revision_detail, items) ==
    [i \in 1..Len(revision_detail) |->
        [k |-> revision_detail[i].k, v |-> Release(revision_detail[i].v, items)]]

\* lines 197-211: the join, the merge into charm_data and the first write
Join ==
    /\ pc = "join"
    /\ hashes # None
    /\ revision_hash' = Joined(revision_hash, hashes[1])
    /\ charm_data' = [charm_data EXCEPT ![charm].revs = Persist(@, revision_hash', 1)]
    /\ file' = charm_data'
    /\ writes' = writes + 1
    /\ pc' = "record"
    /\ UNCHANGED <<envVars, todo, retry, cs_files, calls, outcome, skips, reads,
                   charmlist, idx, hashes, run, file0, resolved, batch>>

\* mutant: last_revision is set in memory and the file is not written
RecordUnwritten ==
    /\ pc = "record"
    /\ charm_data' = [charm_data EXCEPT
                         ![charm].last = Some(LastHandled(revision_hash))]
    /\ pc' = AfterCharm(idx)
    /\ idx' = idx + 1
    /\ batch' = [c \in (DOMAIN batch) \cup {charm} |->
                    IF c = charm THEN revision_hash ELSE batch[c]]
    /\ UNCHANGED <<envVars, scanVars, file, charmlist, hashes, run, file0, writes, resolved>>

\* lines 213-216: last_revision and the second write
Record ==
    /\ pc = "record"
    /\ charm_data' = [charm_data EXCEPT
                         ![charm].last = Some(LastHandled(revision_hash))]
    /\ file' = charm_data'
    /\ pc' = AfterCharm(idx)
    /\ idx' = idx + 1
    /\ writes' = writes + 1
    /\ batch' = [c \in (DOMAIN batch) \cup {charm} |->
                    IF c = charm THEN revision_hash ELSE batch[c]]
    /\ UNCHANGED <<envVars, scanVars, charmlist, hashes, run, file0, resolved>>

\* main() is run again
Rerun ==
    /\ pc = "done"
    /\ run < MaxRuns
    /\ run' = run + 1
    /\ pc' = "load"
    /\ UNCHANGED <<envVars, scanVars, logVars, file, charm_data, charmlist, idx, hashes, file0>>

\* one run of main()
Run(kinds, gits) ==
    \/ Load
    \/ Entity
    \/ EntityRaises
    \/ FilesOk(kinds)
    \/ FilesEntityNotFound
    \/ FilesInteractionError
    \/ FilesServerError
    \/ ReadServerError
    \/ ReadOk
    \/ ScanRaises
    \/ Skip
    \/ NoUser
    \/ Resolve(gits)
    \/ GitRaises
    \/ Join
    \/ Record

Step(kinds, gits) ==
    \/ Run(kinds, gits)
    \/ Rerun

\* one charm, every kind of revision
Init == InitWith({"a"}, Stored)
Next == Step(Kinds, {"twostable", "long", "nostable", "shared"})
Spec == Init /\ [][Next]_vars

\* two charms, one run, a charmstore with fewer kinds of revision
InitTwo == InitWith(CharmNames, StoredTwo)
NextTwo == Run({"full", "shaonly"}, {"twostable"})
SpecTwo == InitTwo /\ [][NextTwo]_vars

(***************************************************************************)
(* Properties.                                                              *)
(***************************************************************************)
\* main has just finished with a charm: the scan's variables are still those
\* of that charm
JustDone == pc \in {"charm", "done"} /\ idx > 1
done_charm == charmlist[idx - 1]
\* the scan of the current charm is under way or has returned
Scanning == pc \in {"files", "read", "scanned"}
Highest(c) == cs[c].highest[1]
Elems(q) == {q[i] : i \in 1..Len(q)}
HasRelease(doc, c, r) == r \in DOMAIN doc[c].revs /\ "release" \in DOMAIN doc[c].revs[r]

\* C1: when the scan result is not empty and no record of it has a user,
\* every scanned revision's record, with its sha, is in the charm's stored
\* mapping after the charm is processed.
C1_RecordsPersistedWithoutJoin ==
    (JustDone /\ Len(revision_hash) # 0 /\ FirstWithUser(revision_hash) = None)
    => \A i \in 1..Len(revision_hash) :
          /\ revision_hash[i].k \in DOMAIN file[done_charm].revs
          /\ "sha" \in DOMAIN file[done_charm].revs[revision_hash[i].k]
          /\ file[done_charm].revs[revision_hash[i].k].sha = revision_hash[i].v.sha

NoCandidate == pc = "scanned" /\ outcome = <<>> /\ revision_hash = <<>>

\* C2 as stated: a highest revision H <= last_checked_revision R, H = 0
\* included, gives a scan without candidate and an empty result.
C2_NoScanAtOrBelowChecked ==
    (Scanning /\ Highest(charm) <= StoredLast(charm_data[charm])) => NoCandidate

\* C2, amended: a highest revision H with 1 <= H <= R gives a scan without
\* candidate and an empty result.
C2_NoScanAtOrBelowCheckedAboveZero ==
    (Scanning /\ 1 <= Highest(charm) /\ Highest(charm) <= StoredLast(charm_data[charm]))
    => NoCandidate
C2_Witness ==
    /\ pc = "scanned"
    /\ Highest(charm) = 1
    /\ StoredLast(charm_data[charm]) \in {1, 2}

\* C3: after a complete run, a charm whose highest revision H was at most
\* its stored last_revision R still has last_revision R.
C3_LastRevisionKept ==
    pc = "done"
    => \A c \in DOMAIN file :
          Highest(c) <= StoredLast(Normalise(file0[c]))
          => StoredLast(file[c]) = StoredLast(Normalise(file0[c]))

\* C4 as stated: a run that follows a complete run leaves the file as it
\* found it.
C4_SecondRunChangesNothing ==
    (pc = "done" /\ run >= 2) => file = file0

\* C4, amended: a run that follows a complete run in which no revision was
\* left on a timeout or a login failure leaves the file as it found it.
C4_SecondRunChangesNothingAfterCleanRun ==
    (pc = "done" /\ run >= 2 /\ (run - 1) \notin skips) => file = file0
C4_Witness ==
    /\ pc = "done"
    /\ run = 2
    /\ 1 \notin skips
    /\ \E c \in DOMAIN file : HasRelease(file, c, 2) /\ file[c].last = Some(2)

\* C5: a revision V that the scan left after timeouts on every attempt is a
\* candidate of the next run again (the stored last_revision is below V).
C5_TimedOutRevisionScannedAgain ==
    JustDone
    => \A V \in DOMAIN outcome :
          outcome[V] = "timeout"
          => V \in Elems(Candidates(Highest(done_charm), StoredLast(file[done_charm])))

\* C6: a revision left after timeouts on every attempt is not in the
\* result, the scan goes on to the end of the range, and every revision
\* starts with retry = 3.
C6_TimeoutsSkipOneRevisionOnly ==
    /\ \A V \in DOMAIN outcome :
          outcome[V] = "timeout" => V \notin DictKeys(revision_hash)
    /\ (pc = "files" /\ calls = 0) => retry = 3
    /\ pc = "scanned"
       => \A V \in DOMAIN outcome :
             \A W \in 0..MaxRev :
                (W < V /\ W > StoredLast(charm_data[charm])) => W \in DOMAIN outcome
C6_Witness ==
    /\ pc = "scanned"
    /\ 2 \in DOMAIN outcome /\ outcome[2] = "timeout"
    /\ 1 \in DOMAIN outcome /\ outcome[1] = "found"
    /\ DictKeys(revision_hash) = {1}

\* C7: when the resolver was called for the charm's batch, the stored
\* record of every scanned revision has the release that hashes gives its
\* sha, and a revision whose sha is no key of hashes has the release it had
\* before the run or none.
C7_JoinBySha ==
    (JustDone /\ Len(revision_hash) # 0 /\ hashes # None)
    => \A i \in 1..Len(revision_hash) :
          LET r == revision_hash[i].k
              sha == revision_hash[i].v.sha
              stored == file[done_charm].revs
          IN  /\ r \in DOMAIN stored
              /\ stored[r].sha = sha
              /\ IF sha \in DictKeys(hashes[1])
                 THEN /\ "release" \in DOMAIN stored[r]
                      /\ stored[r].release = DictGet(hashes[1], sha)
                 ELSE IF HasRelease(file0, done_charm, r)
                      THEN /\ "release" \in DOMAIN stored[r]
                           /\ stored[r].release = file0[done_charm].revs[r].release
                      ELSE "release" \notin DOMAIN stored[r]
C7_Witness ==
    /\ JustDone
    /\ hashes # None
    /\ Len(revision_hash) = 2
    /\ HasRelease(file, done_charm, 2)
    /\ file[done_charm].revs[2].release = Stable2104
    /\ 1 \in DOMAIN file[done_charm].revs
    /\ ~HasRelease(file, done_charm, 1)

\* C8: after a scan that found something, the stored last_revision is the
\* largest revision of the scan result, whether the join ran or not.
C8_LastRevisionIsMaxScanned ==
    (JustDone /\ Len(revision_hash) # 0)
    => /\ file[done_charm].last # None
       /\ file[done_charm].last[1] \in DictKeys(revision_hash)
       /\ \A k \in DictKeys(revision_hash) : k <= file[done_charm].last[1]
C8_Witness ==
    /\ JustDone
    /\ DictKeys(revision_hash) = {1, 2}
    /\ file[done_charm].last = Some(2)
    /\ HasRelease(file, done_charm, 2)
    /\ ~HasRelease(file, done_charm, 1)

\* C9: with a highest revision of 0 and no stored last_revision, revision 0
\* is the scan's candidate, and it is in the result when its listing
\* arrived and its repo-info has a commit line.
C9_RevisionZeroScanned ==
    (Scanning /\ Highest(charm) = 0 /\ file0[charm].last = None)
    => /\ pc \in {"files", "read"} => todo = <<0>>
       /\ pc = "scanned"
          => /\ 0 \in DOMAIN outcome
             /\ (/\ outcome[0] \notin {"timeout", "login", "notfound", "nofile"}
                 /\ sha_match(Texts[cs[charm].prov[0]]) # None)
                => 0 \in DictKeys(revision_hash)
C9_Witness ==
    /\ pc = "scanned"
    /\ Highest(charm) = 0
    /\ file0[charm].last = None
    /\ DictKeys(revision_hash) = {0}

\* the stable branches, by position, on which sha is among the
\* STABLE_COMMIT_LOOKBACK newest commits
OnStable(branches, sha) ==
    {n \in 1..Len(branches) :
        /\ is_stable(branches[n].name)
        /\ \E j \in 1..Len(branches[n].commits) :
              j <= STABLE_COMMIT_LOOKBACK /\ branches[n].commits[j] = sha}
\* the branches the resolver was called for
Resolved ==
    CHOOSE branches \in get_repo(git[1], FirstWithUser(revision_hash)[1].user,
                                  FirstWithUser(revision_hash)[1].repo) : TRUE

\* C10 as stated: a commit within the lookback of several stable branches
\* is mapped to the first of them in the order of enumeration.
C10_FirstBranchWins ==
    pc = "join"
    => \A i \in 1..Len(hashes[1]) :
          LET on == OnStable(Resolved, hashes[1][i].k)
          IN  /\ on # {}
              /\ hashes[1][i].v = Resolved[CHOOSE n \in on : \A m \in on : n <= m].name

\* C10, amended: a commit within the lookback of several stable branches is
\* mapped to the last of them in the order of enumeration.
C10_LastBranchWins ==
    pc = "join"
    => \A i \in 1..Len(hashes[1]) :
          LET on == OnStable(Resolved, hashes[1][i].k)
          IN  /\ on # {}
              /\ hashes[1][i].v = Resolved[CHOOSE n \in on : \A m \in on : m <= n].name
C10_Witness ==
    /\ pc = "join"
    /\ \E i \in 1..Len(hashes[1]) :
          Cardinality(OnStable(Resolved, hashes[1][i].k)) >= 2

\* C11 as stated: between the end of a charm's scan and the next charm's
\* scan (or the end of the run) the whole document is written at least
\* once, also when the scan result is empty.
C11_WriteAfterEveryCharm ==
    JustDone => writes >= 1

\* C11, amended: after a charm whose scan result is not empty the whole
\* document has been written, once or twice, and the file is the document;
\* after a charm whose scan result is empty nothing has been written.
C11_WriteAfterEveryScannedCharm ==
    JustDone => IF Len(revision_hash) # 0
                THEN writes \in {1, 2} /\ file = charm_data
                ELSE writes = 0
C11_Witness ==
    /\ pc = "charm"
    /\ idx = 2
    /\ Len(revision_hash) # 0
    /\ writes = 2
    /\ file = charm_data
    /\ file # file0

\* C12: when an exception leaves main while charm k is being processed,
\* the file has, for every charm before k whose scan result was not empty,
\* the records of the scanned revisions (joined) and the advanced
\* last_revision, and has k and every later charm as the run loaded them.
C12_CrashKeepsEarlierCharms ==
    pc = "crashed"
    => /\ \A j \in 1..(idx - 1) :
             LET c == charmlist[j]
             IN  Len(batch[c]) # 0
                 => /\ file[c].last = Some(MaxOf(DictKeys(batch[c])))
                    /\ \A i \in 1..Len(batch[c]) :
                          /\ batch[c][i].k \in DOMAIN file[c].revs
                          /\ file[c].revs[batch[c][i].k] = batch[c][i].v
       /\ \A j \in idx..Len(charmlist) :
             file[charmlist[j]] = file0[charmlist[j]]

\* text t has the line `line` (which ends in a newline), at the start of t
\* or after a newline
HasLine(t, line) ==
    \E i \in 1..Len(t) :
       /\ i + Len(line) - 1 <= Len(t)
       /\ SubSeq(t, i, i + Len(line) - 1) = line
       /\ i = 1 \/ t[i - 1] = NL

\* C13: a revision whose repo-info text has a line "commit-sha-1: <hex>" and
\* a line "remote: https://github.com/<owner>/<repo>" is in the scan result
\* with sha <hex>, user <owner> and repo <repo>.
C13_ProvenanceParsed ==
    Scanning
    => \A V \in DOMAIN outcome :
          (outcome[V] \in {"found", "nosha"} /\ cs[charm].prov[V] \in TextKinds)
          => \A hex \in {ShaAbc, ShaDef, Sha1a2b} :
                \A owner \in {Canonical, Fork} :
                   \A repo \in {ExampleCharm} :
                      (/\ HasLine(Texts[cs[charm].prov[V]], CommitLine(hex))
                       /\ HasLine(Texts[cs[charm].prov[V]], RemoteLine(owner, repo)))
                      => /\ V \in DictKeys(revision_hash)
                         /\ DictGet(revision_hash, V) =
                               [sha |-> hex, user |-> owner, repo |-> repo]
C13_Witness ==
    /\ pc = "scanned"
    /\ \E V \in DOMAIN outcome :
          /\ outcome[V] = "found"
          /\ HasLine(Texts[cs[charm].prov[V]], CommitLine(Sha1a2b))
          /\ HasLine(Texts[cs[charm].prov[V]], RemoteLine(Fork, ExampleCharm))
          /\ DictGet(revision_hash, V) =
                [sha |-> Sha1a2b, user |-> Fork, repo |-> ExampleCharm]
    /\ \E V \in DOMAIN outcome :
          /\ outcome[V] = "found"
          /\ DictGet(revision_hash, V) =
                [sha |-> ShaAbc, user |-> Canonical, repo |-> ExampleCharm]

\* C14: once a read of repo-info has returned without error, whatever the
\* text, no further read is made for that revision: the scan is never in
\* the read loop of a revision with a returned read behind it.
C14_OneReturnedReadPerRevision ==
    pc = "read" => reads = 0

\* C15: a revision gets at most 3 listing calls: it is left on timeouts
\* with its third call, it is left on the call that answers entity-not-found
\* or login failure, without retry and without a record in the result, and
\* after a listing call has succeeded the scan reads repo-info and leaves
\* the revision without another listing call.
C15_ListingCallsBounded ==
    /\ [](/\ pc = "files" => (calls \in 0..2 /\ cs_files = None)
          /\ pc = "read" => (calls \in 1..3 /\ cs_files # None))
    /\ [][/\ (pc = "files" /\ pc' # "crashed")
             => \/ /\ todo' = todo
                   /\ calls' = calls + 1
                   /\ pc' \in {"files", "read"}
                \/ /\ todo' = Tail(todo)
                   /\ revision \in DOMAIN outcome'
                   /\ outcome'[revision] = "timeout" => calls = 2
                   /\ outcome'[revision] \in {"timeout", "notfound", "login"}
                      => revision \notin DictKeys(revision_hash')
          /\ (pc = "read" /\ pc' # "crashed")
             => \/ todo' = todo /\ pc' = "read" /\ calls' = calls
                \/ todo' = Tail(todo)
         ]_vars
C15_Witness ==
    /\ pc = "read"
    /\ calls = 3
    /\ \E V \in DOMAIN outcome : outcome[V] = "timeout"

\* C16: with a highest revision H > 0 and a stored last_revision L, the
\* scan is at a revision of L+1..H whose higher revisions of that range are
\* exactly the ones it has left (so it goes through H, H-1, ..., L+1 in
\* that order, each once), it ends with exactly L+1..H left, and the keys
\* of the result are revisions it has been at.
C16_DescendingRange ==
    (Scanning /\ Highest(charm) > 0)
    => LET H == Highest(charm)
           L == StoredLast(charm_data[charm])
       IN  /\ pc \in {"files", "read"}
              => /\ L < revision /\ revision <= H
                 /\ DOMAIN outcome = (revision + 1)..H
           /\ pc = "scanned" => DOMAIN outcome = (L + 1)..H
           /\ \A k \in DictKeys(revision_hash) :
                 /\ L < k /\ k <= H
                 /\ k \in DOMAIN outcome
C16_Witness ==
    /\ pc = "scanned"
    /\ Highest(charm) = 2
    /\ StoredLast(charm_data[charm]) = 0
    /\ DOMAIN outcome = {1, 2}
    /\ DictKeys(revision_hash) = {1, 2}

\* the revisions of revision_detail whose record has a user and a repo
WithUser(revision_detail) ==
    {revision_detail[i].k : i \in {j \in 1..Len(revision_detail) :
                                      /\ "user" \in DOMAIN revision_detail[j].v
                                      /\ "repo" \in DOMAIN revision_detail[j].v}}

\* C17: CharmGit is asked at most once per charm and run: not during the
\* scan, not when the scan result is empty or has no record with a user,
\* and otherwise once, for the user and repo of the highest revision whose
\* record has them.
C17_ResolverOncePerCharm ==
    /\ Len(resolved) <= 1
    /\ Scanning => resolved = <<>>
    /\ (pc \in {"join", "record"} \/ JustDone \/ (pc = "crashed" /\ resolved # <<>>))
       => IF WithUser(revision_hash) = {}
          THEN resolved = <<>>
          ELSE LET top == DictGet(revision_hash, MaxOf(WithUser(revision_hash)))
               IN  resolved = << <<top.user, top.repo>> >>
C17_Witness ==
    /\ pc = "join"
    /\ WithUser(revision_hash) = {1, 2}
    /\ DictGet(revision_hash, 2).user = Fork
    /\ DictGet(revision_hash, 1).user = Canonical
    /\ resolved = << <<Fork, ExampleCharm>> >>

\* C18: after a charm whose scan result is empty, main is at the next charm
\* (or at the end), and the charm's last_revision and records, in memory and
\* in the file, are the ones the run loaded.
C18_EmptyScanChangesNothing ==
    (JustDone /\ Len(revision_hash) = 0)
    => /\ file[done_charm] = file0[done_charm]
       /\ charm_data[done_charm].last = file0[done_charm].last
       /\ charm_data[done_charm].revs = file0[done_charm].revs
C18_Witness ==
    /\ JustDone
    /\ Len(revision_hash) = 0
    /\ run = 2
    /\ \E V \in DOMAIN outcome : outcome[V] \in {"timeout", "login"}
    /\ file[done_charm].last # None
    /\ DOMAIN file[done_charm].revs # {}

\* the STABLE_COMMIT_LOOKBACK newest commits of a branch, all of them when
\* it has fewer
Window(branch) ==
    {branch.commits[j] : j \in {i \in 1..Len(branch.commits) : i <= STABLE_COMMIT_LOOKBACK}}
StableBranches(branches) == {n \in 1..Len(branches) : is_stable(branches[n].name)}

\* C19 as stated: the keys of the mapping have, of every stable branch, the
\* commits of its window and no other commit of that branch; every value
\* is the name of a stable branch that has the key in its window.
C19_WindowAndNoOtherCommit ==
    pc = "join"
    => /\ \A n \in StableBranches(Resolved) :
             /\ Window(Resolved[n]) \subseteq DictKeys(hashes[1])
             /\ (Elems(Resolved[n].commits) \ Window(Resolved[n]))
                   \cap DictKeys(hashes[1]) = {}
       /\ \A i \in 1..Len(hashes[1]) :
             \E n \in OnStable(Resolved, hashes[1][i].k) :
                hashes[1][i].v = Resolved[n].name

\* C19, amended: the keys of the mapping are exactly the commits that are
\* in the window of some stable branch (a commit beyond the window of one
\* stable branch is a key when it is in the window of another); every
\* value is the name of a stable branch that has the key in its window.
C19_KeysAreUnionOfWindows ==
    pc = "join"
    => /\ DictKeys(hashes[1]) =
             UNION {Window(Resolved[n]) : n \in StableBranches(Resolved)}
       /\ \A i \in 1..Len(hashes[1]) :
             \E n \in OnStable(Resolved, hashes[1][i].k) :
                hashes[1][i].v = Resolved[n].name
C19_Witness ==
    /\ pc = "join"
    /\ \E n \in StableBranches(Resolved) :
          /\ Len(Resolved[n].commits) > STABLE_COMMIT_LOOKBACK
          /\ Cardinality(Window(Resolved[n])) = STABLE_COMMIT_LOOKBACK
          /\ \E sha \in Elems(Resolved[n].commits) \ Window(Resolved[n]) :
                sha \in DictKeys(hashes[1])
          /\ \E sha \in Elems(Resolved[n].commits) \ Window(Resolved[n]) :
                sha \notin DictKeys(hashes[1])

\* the literal lit occurs in text t
Occurs(t, lit) == \E i \in 1..Len(t) : LitAt(t, i, lit)

\* C20: every record of the scan result has a sha and has user and repo
\* together or not at all; a revision whose text has no commit label is not
\* in the result, and one whose text has a commit but no remote label has a
\* record of its sha alone.
C20_ShaFirst ==
    /\ \A i \in 1..Len(revision_hash) :
          /\ "sha" \in DOMAIN revision_hash[i].v
          /\ "user" \in DOMAIN revision_hash[i].v <=> "repo" \in DOMAIN revision_hash[i].v
    /\ Scanning
       => \A V \in DOMAIN outcome :
             (outcome[V] \in {"found", "nosha"} /\ cs[charm].prov[V] \in TextKinds)
             => LET t == Texts[cs[charm].prov[V]]
                IN  /\ ~Occurs(t, CommitLabel) => V \notin DictKeys(revision_hash)
                    /\ (V \in DictKeys(revision_hash) /\ ~Occurs(t, RemoteLabel))
                       => DOMAIN DictGet(revision_hash, V) = {"sha"}
C20_Witness ==
    /\ pc = "scanned"
    /\ DOMAIN outcome = {1, 2}
    /\ outcome[2] = "nosha"
    /\ cs[charm].prov[2] \in TextKinds
    /\ Occurs(Texts[cs[charm].prov[2]], RemoteLabel)
    /\ ~Occurs(Texts[cs[charm].prov[2]], CommitLabel)
    /\ DictKeys(revision_hash) = {1}
    /\ DOMAIN DictGet(revision_hash, 1) = {"sha"}
====
